---- MODULE Spec2Model ----
(***************************************************************************)
(* Model of table_ocr.pdf_to_images (src/table_ocr/pdf_to_images/          *)
(* __init__.py): the two entry points pdf_to_images and preprocess_img,    *)
(* the external tools they run (pdfimages, tesseract, mogrify) as          *)
(* environment steps, and the string and path functions they use.          *)
(*                                                                         *)
(* A Python str (or bytes) is a sequence of one-character strings:         *)
(* "a.pdf" is <<"a", ".", "p", "d", "f">>.  The invalid UTF-8 byte 0xFF is *)
(* the element "\\xff" and U+FFFD the element "\\ufffd".                   *)
(***************************************************************************)
EXTENDS Naturals, Sequences, FiniteSets, TLC

VARIABLES
    op,            \* entry point called: "pdf_to_images" or "preprocess_img"
    pc,            \* position of the call
    cwd,           \* process-wide working directory (os.getcwd())
    pdf_filepath,  \* argument of pdf_to_images, as passed by the caller
    output_dir,    \* argument of pdf_to_images: [none |-> TRUE] or [path |-> s]
    dir_state,     \* what os.chdir(target directory) meets
    entries,       \* names in the target directory (what os.listdir sees)
    saved_cwd,     \* working_dir's saved original directory
    cwd_at_call,   \* history: the working directory when the call was made
    pending,       \* exception in flight inside the try block, or NoExc
    image_filepath,\* argument of preprocess_img
    tess_params,   \* argument of preprocess_img: [none |-> TRUE] or [params |-> l]
    image,         \* rotations applied in place to the image file
    rotate,        \* preprocess_img's local: the angle get_rotate returned
    calls,         \* subprocess invocations so far: [argv, cwd, outcome, out]
    log,           \* logger records so far: [level, msg]
    result         \* outcome of the call: NoResult, a return or a raise

vars == <<op, pc, cwd, pdf_filepath, output_dir, dir_state, entries,
          saved_cwd, cwd_at_call, pending, image_filepath, tess_params, image,
          rotate, calls, log, result>>

-----------------------------------------------------------------------------
(* Bounds of the model. *)

\* the rasterizer writes 0..MaxPages images
MaxPages == 2
\* the tesseract report is built from at most MaxPieces pieces
MaxPieces == 5

-----------------------------------------------------------------------------
(* Python str operations. *)

\* ord(c) for the characters the model uses
Ord(c) ==
    CASE c = "\n" -> 10
      [] c = " " -> 32
      [] c = "-" -> 45
      [] c = "." -> 46
      [] c = "/" -> 47
      [] c = "0" -> 48
      [] c = "1" -> 49
      [] c = "2" -> 50
      [] c = "3" -> 51
      [] c = "4" -> 52
      [] c = "9" -> 57
      [] c = ":" -> 58
      [] c = "R" -> 82
      [] c = "X" -> 88
      [] c = "a" -> 97
      [] c = "b" -> 98
      [] c = "d" -> 100
      [] c = "e" -> 101
      [] c = "f" -> 102
      [] c = "g" -> 103
      [] c = "j" -> 106
      [] c = "m" -> 109
      [] c = "n" -> 110
      [] c = "o" -> 111
      [] c = "p" -> 112
      [] c = "t" -> 116
      [] c = "w" -> 119
      [] c = "x" -> 120
      [] OTHER -> 255

\* \d of the re module, on the characters the model uses
Digits == {"0", "1", "2", "3", "4", "9"}

\* s[i:] with a 1-based i
Drop(s, i) == SubSeq(s, i, Len(s))

\* s.startswith(p, i-1)
StartsAt(s, p, i) ==
    /\ i >= 1
    /\ i + Len(p) - 1 <= Len(s)
    /\ SubSeq(s, i, i + Len(p) - 1) = p

\* s.find(p) + 1: the 1-based index of the first occurrence, 0 when absent
Find(s, p) ==
    LET hits == {i \in 1..(Len(s) + 1) : StartsAt(s, p, i)}
    IN  IF hits = {} THEN 0 ELSE CHOOSE i \in hits : \A j \in hits : i <= j

\* s.rfind(p) + 1
RFind(s, p) ==
    LET hits == {i \in 1..(Len(s) + 1) : StartsAt(s, p, i)}
    IN  IF hits = {} THEN 0 ELSE CHOOSE i \in hits : \A j \in hits : i >= j

\* p in s
Contains(s, p) == Find(s, p) # 0

\* s.split(sep), sep non-empty: the pieces between successive occurrences
RECURSIVE Split(_, _)
Split(s, sep) ==
    LET i == Find(s, sep)
    IN  IF i = 0
        THEN <<s>>
        ELSE <<SubSeq(s, 1, i - 1)>> \o Split(Drop(s, i + Len(sep)), sep)

\* sep.join(parts)
RECURSIVE Join(_, _)
Join(parts, sep) ==
    IF parts = <<>> THEN <<>>
    ELSE IF Len(parts) = 1 THEN parts[1]
    ELSE parts[1] \o sep \o Join(Tail(parts), sep)

\* s < t for str: by code point, a proper prefix first
RECURSIVE StrLess(_, _)
StrLess(s, t) ==
    IF t = <<>> THEN FALSE
    ELSE IF s = <<>> THEN TRUE
    ELSE IF Ord(s[1]) # Ord(t[1]) THEN Ord(s[1]) < Ord(t[1])
    ELSE StrLess(Tail(s), Tail(t))

\* insertion of x into a sorted list, after the elements not greater than it
RECURSIVE Insert(_, _)
Insert(x, xs) ==
    IF xs = <<>> THEN <<x>>
    ELSE IF StrLess(x, xs[1]) THEN <<x>> \o xs
    ELSE <<xs[1]>> \o Insert(x, Tail(xs))

\* sorted(xs) for a list of str
RECURSIVE sorted(_)
sorted(xs) ==
    IF xs = <<>> THEN <<>>
    ELSE Insert(xs[Len(xs)], sorted(SubSeq(xs, 1, Len(xs) - 1)))

\* bytes.decode("utf-8", errors="replace"): an invalid byte becomes U+FFFD
decode_replace(b) ==
    [i \in DOMAIN b |-> IF b[i] = "\\xff" THEN "\\ufffd" ELSE b[i]]

\* bytes.decode("utf-8") raises UnicodeDecodeError on an invalid byte
DecodeFails(b) == \E i \in DOMAIN b : b[i] = "\\xff"

-----------------------------------------------------------------------------
(* posixpath. *)

\* os.path.isabs
isabs(p) == Len(p) > 0 /\ p[1] = "/"

\* os.path.join(a, b)
path_join(a, b) ==
    IF isabs(b) THEN b
    ELSE IF a = <<>> \/ a[Len(a)] = "/" THEN a \o b
    ELSE a \o <<"/">> \o b

\* s.rstrip("/")
RECURSIVE RStripSlash(_)
RStripSlash(s) ==
    IF s # <<>> /\ s[Len(s)] = "/" THEN RStripSlash(SubSeq(s, 1, Len(s) - 1))
    ELSE s

\* os.path.split(p): <<head, tail>>, cut after the last "/"
path_split(p) ==
    LET i == RFind(p, <<"/">>)
        head == SubSeq(p, 1, i)
        tail == Drop(p, i + 1)
    IN  <<IF RStripSlash(head) = <<>> THEN head ELSE RStripSlash(head), tail>>

\* the component loop of os.path.normpath
RECURSIVE NormComps(_, _, _)
NormComps(comps, acc, rooted) ==
    IF comps = <<>> THEN acc
    ELSE LET c == comps[1]
             rest == Tail(comps)
         IN  IF c = <<>> \/ c = <<".">>
             THEN NormComps(rest, acc, rooted)
             ELSE IF \/ c # <<".", ".">>
                     \/ (~rooted /\ acc = <<>>)
                     \/ (acc # <<>> /\ acc[Len(acc)] = <<".", ".">>)
             THEN NormComps(rest, Append(acc, c), rooted)
             ELSE IF acc # <<>>
             THEN NormComps(rest, SubSeq(acc, 1, Len(acc) - 1), rooted)
             ELSE NormComps(rest, acc, rooted)

\* os.path.normpath
normpath(p) ==
    IF p = <<>> THEN <<".">>
    ELSE LET rooted == isabs(p)
             lead == IF ~rooted THEN <<>>
                     ELSE IF StartsAt(p, <<"/", "/">>, 1)
                             /\ ~StartsAt(p, <<"/", "/", "/">>, 1)
                     THEN <<"/", "/">>
                     ELSE <<"/">>
             out == lead \o Join(NormComps(Split(p, <<"/">>), <<>>, rooted), <<"/">>)
         IN  IF out = <<>> THEN <<".">> ELSE out

\* os.path.abspath against the working directory wd
abspath(p, wd) == normpath(IF isabs(p) THEN p ELSE path_join(wd, p))

-----------------------------------------------------------------------------
(* String literals of the source, character by character. *)

\* 'pdfimages'
S_pdfimages ==
    <<"p", "d", "f", "i", "m", "a", "g", "e", "s">>

\* '-png'
S_png_flag ==
    <<"-", "p", "n", "g">>

\* 'tesseract'
S_tesseract ==
    <<"t", "e", "s", "s", "e", "r", "a", "c", "t">>

\* 'mogrify'
S_mogrify ==
    <<"m", "o", "g", "r", "i", "f", "y">>

\* '-rotate'
S_rotate_flag ==
    <<"-", "r", "o", "t", "a", "t", "e">>

\* '--psm'
S_psm ==
    <<"-", "-", "p", "s", "m">>

\* '--oem'
S_oem ==
    <<"-", "-", "o", "e", "m">>

\* '0'
S_zero ==
    <<"0">>

\* '-'
S_dash ==
    <<"-">>

\* '.pdf'
S_dot_pdf ==
    <<".", "p", "d", "f">>

\* '.png'
S_dot_png ==
    <<".", "p", "n", "g">>

\* ': '
S_colon_space ==
    <<":", " ">>

\* 'Rotate: '
S_Rotate ==
    <<"R", "o", "t", "a", "t", "e", ":", " ">>

\* '\n'
S_newline ==
    <<"\n">>

\* 'Error running pdfimages on '
S_error_running ==
    <<"E", "r", "r", "o", "r", " ", "r", "u", "n", "n", "i", "n", "g", " ",
      "p", "d", "f", "i", "m", "a", "g", "e", "s", " ", "o", "n", " ">>

\* 'pdfimages stderr: '
S_stderr_prefix ==
    <<"p", "d", "f", "i", "m", "a", "g", "e", "s", " ", "s", "t", "d", "e",
      "r", "r", ":", " ">>

\* 'pdfimages command not found. Make sure Poppler is installed: '
S_not_found ==
    <<"p", "d", "f", "i", "m", "a", "g", "e", "s", " ", "c", "o", "m", "m",
      "a", "n", "d", " ", "n", "o", "t", " ", "f", "o", "u", "n", "d", ".",
      " ", "M", "a", "k", "e", " ", "s", "u", "r", "e", " ", "P", "o", "p",
      "p", "l", "e", "r", " ", "i", "s", " ", "i", "n", "s", "t", "a", "l",
      "l", "e", "d", ":", " ">>

\* 'Unexpected error processing PDF '
S_unexpected ==
    <<"U", "n", "e", "x", "p", "e", "c", "t", "e", "d", " ", "e", "r", "r",
      "o", "r", " ", "p", "r", "o", "c", "e", "s", "s", "i", "n", "g", " ",
      "P", "D", "F", " ">>

\* 'Converted '
S_converted ==
    <<"C", "o", "n", "v", "e", "r", "t", "e", "d", " ">>

\* ' into files:\n'
S_into_files ==
    <<" ", "i", "n", "t", "o", " ", "f", "i", "l", "e", "s", ":", "\n">>

\* 'Rotating '
S_rotating ==
    <<"R", "o", "t", "a", "t", "i", "n", "g", " ">>

\* ' by '
S_by ==
    <<" ", "b", "y", " ">>

\* 'Command '
S_command ==
    <<"C", "o", "m", "m", "a", "n", "d", " ">>

\* ' returned non-zero exit status '
S_nonzero ==
    <<" ", "r", "e", "t", "u", "r", "n", "e", "d", " ", "n", "o", "n", "-",
      "z", "e", "r", "o", " ", "e", "x", "i", "t", " ", "s", "t", "a", "t",
      "u", "s", " ">>

\* '[Errno 2] No such file or directory: '
S_enoent ==
    <<"[", "E", "r", "r", "n", "o", " ", "2", "]", " ", "N", "o", " ", "s",
      "u", "c", "h", " ", "f", "i", "l", "e", " ", "o", "r", " ", "d", "i",
      "r", "e", "c", "t", "o", "r", "y", ":", " ">>

\* '[Errno 13] Permission denied: '
S_eacces ==
    <<"[", "E", "r", "r", "n", "o", " ", "1", "3", "]", " ", "P", "e", "r",
      "m", "i", "s", "s", "i", "o", "n", " ", "d", "e", "n", "i", "e", "d",
      ":", " ">>

\* '[Errno 20] Not a directory: '
S_enotdir ==
    <<"[", "E", "r", "r", "n", "o", " ", "2", "0", "]", " ", "N", "o", "t",
      " ", "a", " ", "d", "i", "r", "e", "c", "t", "o", "r", "y", ":", " ">>

\* repr(s) of a str without quotes, backslashes or control characters
repr(s) == <<"'">> \o s \o <<"'">>

\* repr(xs) of a list of str
repr_list(xs) ==
    <<"[">> \o Join([i \in DOMAIN xs |-> repr(xs[i])], <<",", " ">>) \o <<"]">>

\* str(n) for a one-digit n
int_str(n) ==
    <<CASE n = 0 -> "0" [] n = 1 -> "1" [] n = 2 -> "2" [] n = 3 -> "3"
        [] n = 4 -> "4" [] OTHER -> "9">>

-----------------------------------------------------------------------------
(* Exceptions and outcomes. *)

NoExc == [type |-> "none"]

\* subprocess.CalledProcessError(returncode, cmd, stderr=...)
CalledProcessError(cmd, returncode, stderr) ==
    [type |-> "CalledProcessError", cmd |-> cmd, returncode |-> returncode,
     stderr |-> stderr]

\* FileNotFoundError, PermissionError, NotADirectoryError with their filename
OSErrorOf(type, filename) == [type |-> type, filename |-> filename]

\* raise RuntimeError(msg) from cause
RuntimeError(msg, cause) == [type |-> "RuntimeError", msg |-> msg, cause |-> cause]

\* str(e)
exc_str(e) ==
    CASE e.type = "CalledProcessError" ->
            S_command \o repr(repr_list(e.cmd)) \o S_nonzero
                \o int_str(e.returncode) \o <<".">>
      [] e.type = "FileNotFoundError" -> S_enoent \o repr(e.filename)
      [] e.type = "PermissionError" -> S_eacces \o repr(e.filename)
      [] e.type = "NotADirectoryError" -> S_enotdir \o repr(e.filename)
      [] OTHER -> <<>>

NoResult == [kind |-> "none"]
Return(v) == [kind |-> "return", value |-> v]
Raise(e) == [kind |-> "raise", exc |-> e]

LogRecord(level, msg) == [level |-> level, msg |-> msg]

-----------------------------------------------------------------------------
(* table_ocr.util.working_dir: a context manager that saves os.getcwd(),  *)
(* changes into the directory, and changes back when the block is left.   *)

\* what os.chdir(directory) or os.listdir(directory) raises, by the state of
\* the directory
path_error(directory, state) ==
    CASE state = "missing" -> OSErrorOf("FileNotFoundError", directory)
      [] state = "notdir" -> OSErrorOf("NotADirectoryError", directory)
      [] state = "noperm" -> OSErrorOf("PermissionError", directory)
      [] OTHER -> NoExc

\* the working directory inside the block
working_dir_enter(directory, wd) == directory

\* the working directory once the block is left (normally or by exception)
working_dir_exit(saved, wd) == saved

-----------------------------------------------------------------------------
(* pdf_to_images and pdfimages: the values they compute. *)

\* digits of the index in find_matching_files_in_dir's pattern
IndexDigits == 3

\* pdf_to_images lines 23-24
resolved_pdf(p, wd) == IF ~isabs(p) THEN abspath(p, wd) ELSE p

\* pdf_to_images line 28: target_dir, od being [none |-> TRUE] or [path |-> s]
target_dir(od, directory) == IF "path" \in DOMAIN od THEN od.path ELSE directory

\* pdfimages lines 52-53
resolved_output_dir(d, wd) == IF ~isabs(d) THEN abspath(d, wd) ELSE d

\* pdfimages line 54: filename.split(".pdf")[0]
filename_sans_ext(filename) == Split(filename, S_dot_pdf)[1]

\* pdfimages line 60: the command line
pdfimages_cmd(pdf, stem) == <<S_pdfimages, S_png_flag, pdf, stem>>

\* re.match(r"{}-\d{{3}}.*\.png".format(re.escape(file_prefix)), filename):
\* anchored at the start only; "." does not match a newline
re_match(file_prefix, filename) ==
    LET n == Len(file_prefix) + 1
        from == n + IndexDigits + 1
    IN  /\ StartsAt(filename, file_prefix \o S_dash, 1)
        /\ Len(filename) >= n + IndexDigits
        /\ \A k \in 1..IndexDigits : filename[n + k] \in Digits
        /\ \E j \in from..Len(filename) :
              /\ StartsAt(filename, S_dot_png, j)
              /\ \A k \in from..(j - 1) : filename[k] # "\n"

\* find_matching_files_in_dir over the list os.listdir returned
find_matching_files_in_dir(file_prefix, listing) ==
    SelectSeq(listing, LAMBDA f : re_match(file_prefix, f))


\* line 33 without sorted(): the paths in listing order
joined_unsorted(td, image_filenames) ==
    [i \in DOMAIN image_filenames |-> path_join(td, image_filenames[i])]

\* pdf_to_images line 33
joined_sorted(td, image_filenames) ==
    sorted([i \in DOMAIN image_filenames |-> path_join(td, image_filenames[i])])


\* lines 71-86 with the decoded stderr appended to the CalledProcessError
\* message
except_message_with_stderr(e, pdf) ==
    CASE e.type = "CalledProcessError" ->
            S_error_running \o pdf \o S_colon_space \o exc_str(e)
                \o decode_replace(e.stderr)
      [] e.type = "FileNotFoundError" -> S_not_found \o exc_str(e)
      [] OTHER -> S_unexpected \o pdf \o S_colon_space \o exc_str(e)

\* lines 71-86 with the except Exception clause placed before the
\* except FileNotFoundError clause
except_message_generic_first(e, pdf) ==
    CASE e.type = "CalledProcessError" ->
            S_error_running \o pdf \o S_colon_space \o exc_str(e)
      [] OTHER -> S_unexpected \o pdf \o S_colon_space \o exc_str(e)

\* pdfimages lines 71-86: the handler's log records and the exception raised
except_message(e, pdf) ==
    CASE e.type = "CalledProcessError" ->
            S_error_running \o pdf \o S_colon_space \o exc_str(e)
      [] e.type = "FileNotFoundError" -> S_not_found \o exc_str(e)
      [] OTHER -> S_unexpected \o pdf \o S_colon_space \o exc_str(e)

except_log(e, pdf) ==
    <<LogRecord("error", except_message(e, pdf))>>
    \o (IF e.type = "CalledProcessError" /\ e.stderr # <<>>
        THEN <<LogRecord("error", S_stderr_prefix \o decode_replace(e.stderr))>>
        ELSE <<>>)


\* a handler that logs and re-raises the exception it caught, unwrapped
except_reraise(e, pdf) == Raise(e)

except_raise(e, pdf) == Raise(RuntimeError(except_message(e, pdf), e))

\* the files pdfimages -png writes for n images: <stem>-000.png, ...
page_name(stem, k) == stem \o S_dash \o <<"0", "0">> \o int_str(k) \o S_dot_png

-----------------------------------------------------------------------------
(* preprocess_img, get_rotate, mogrify: the values they compute. *)

\* preprocess_img lines 107-108; tp is [none |-> TRUE] or [params |-> list]
effective_tess_params(tp) ==
    IF "params" \in DOMAIN tp THEN tp.params ELSE <<S_psm, S_zero, S_oem, S_zero>>

\* get_rotate line 117
tess_command(filepath, params) ==
    <<S_tesseract>> \o params \o <<filepath, S_dash>>

\* get_rotate line 123: the lines containing "Rotate: ", in output order
rotate_lines(text) ==
    SelectSeq(Split(text, S_newline), LAMBDA l : Contains(l, S_Rotate))


\* line 124 as output.split(": ", 1)[1]: everything after the first ": "
rotate_value_rest(line) == Drop(line, Find(line, S_colon_space) + Len(S_colon_space))

\* get_rotate line 124: output.split(": ")[1]
rotate_value(line) == Split(line, S_colon_space)[2]


\* line 123 as next(..., "") with a default: no StopIteration
get_rotate_default(text) ==
    IF rotate_lines(text) = <<>>
    THEN Return(<<>>)
    ELSE Return(rotate_value(rotate_lines(text)[1]))

\* get_rotate lines 118-125 on the decoded stdout: the value returned, or
\* StopIteration out of next()
get_rotate(text) ==
    IF rotate_lines(text) = <<>>
    THEN Raise([type |-> "StopIteration"])
    ELSE Return(rotate_value(rotate_lines(text)[1]))

\* mogrify line 129: the command line
mogrify_cmd(filepath, angle) ==
    <<S_mogrify, S_rotate_flag, angle, filepath>>

-----------------------------------------------------------------------------
(* Inputs and environment: sample paths, directory contents, tool output. *)

\* '/d/a.pdf'
P_abs ==
    <<"/", "d", "/", "a", ".", "p", "d", "f">>

\* 'a.pdf'
P_rel ==
    <<"a", ".", "p", "d", "f">>

\* '/d/a.pdf.pdf'
P_double ==
    <<"/", "d", "/", "a", ".", "p", "d", "f", ".", "p", "d", "f">>

\* 'd/a.b.pdf'
P_dotted ==
    <<"d", "/", "a", ".", "b", ".", "p", "d", "f">>

\* '/o'
D_abs ==
    <<"/", "o">>

\* 'o'
D_rel ==
    <<"o">>

\* '../o'
D_up ==
    <<".", ".", "/", "o">>

\* '/w'
W_home ==
    <<"/", "w">>

\* '/'
W_root ==
    <<"/">>

\* 'a-000.png.txt'
N_trailing ==
    <<"a", "-", "0", "0", "0", ".", "p", "n", "g", ".", "t", "x", "t">>

\* 'a-00.png'
N_two ==
    <<"a", "-", "0", "0", ".", "p", "n", "g">>

\* 'a-0001.png'
N_four ==
    <<"a", "-", "0", "0", "0", "1", ".", "p", "n", "g">>

\* 'aXb-000.png'
N_meta ==
    <<"a", "X", "b", "-", "0", "0", "0", ".", "p", "n", "g">>

\* 'b-000.png'
N_other ==
    <<"b", "-", "0", "0", "0", ".", "p", "n", "g">>

\* 'a-000-m.png'
N_mask ==
    <<"a", "-", "0", "0", "0", "-", "m", ".", "p", "n", "g">>

\* 'a-000.jpg'
N_jpg ==
    <<"a", "-", "0", "0", "0", ".", "j", "p", "g">>

\* 'a.b-001.png'
N_dotted ==
    <<"a", ".", "b", "-", "0", "0", "1", ".", "p", "n", "g">>

\* 'a-000\n.png'
N_newline ==
    <<"a", "-", "0", "0", "0", "\n", ".", "p", "n", "g">>

\* 'bad'
E_bad ==
    <<"b", "a", "d">>

\* b'bad\xff'
E_invalid ==
    <<"b", "a", "d", "\\xff">>

\* '/d/a-000.png'
I_image ==
    <<"/", "d", "/", "a", "-", "0", "0", "0", ".", "p", "n", "g">>

\* 'Rotate'
T_Rotate ==
    <<"R", "o", "t", "a", "t", "e">>

\* ': '
T_sep ==
    <<":", " ">>

\* '90'
T_angle ==
    <<"9", "0">>

\* '\n'
T_newline ==
    <<"\n">>

\* 'x'
T_x ==
    <<"x">>

NoneArg == [none |-> TRUE]

PdfPaths == {P_abs, P_rel, P_double, P_dotted}
OutputDirs == {NoneArg, [path |-> D_abs], [path |-> D_rel], [path |-> D_up]}
Cwds == {W_home, W_root}
DirStates == {"ok", "missing", "notdir", "noperm"}

\* what the target directory holds before the call
PreDirs ==
    { {}, {N_trailing}, {N_two, N_four}, {N_meta, N_dotted}, {N_other, N_mask},
      {N_jpg, N_newline}, {N_four, N_mask, N_trailing} }

ReturnCodes == {1, 2}
StderrSamples == {<<>>, E_bad, E_invalid}

TessParams == {NoneArg, [params |-> <<S_psm, S_zero>>]}
Pieces == {T_Rotate, T_sep, T_angle, T_newline, T_x}

RECURSIVE Flatten(_)
Flatten(ps) == IF ps = <<>> THEN <<>> ELSE ps[1] \o Flatten(Tail(ps))

\* the stdout of tesseract: up to MaxPieces pieces, or undecodable bytes
TessOutputs ==
    {Flatten(ps) : ps \in UNION {[1..n -> Pieces] : n \in 0..MaxPieces}}
        \cup {<<"\\xff">>}

\* os.listdir returns the names in arbitrary order
RECURSIVE Listings(_)
Listings(S) ==
    IF S = {} THEN {<<>>}
    ELSE UNION {{<<x>> \o l : l \in Listings(S \ {x})} : x \in S}

CallRecord(argv, wd, outcome, out) ==
    [argv |-> argv, cwd |-> wd, outcome |-> outcome, out |-> out]

-----------------------------------------------------------------------------
(* The locals of pdf_to_images and pdfimages, from the arguments and the  *)
(* working directory at the time of the call.                             *)

cur_pdf == resolved_pdf(pdf_filepath, cwd_at_call)
cur_directory == path_split(cur_pdf)[1]
cur_filename == path_split(cur_pdf)[2]
cur_target_dir == target_dir(output_dir, cur_directory)
cur_output_dir == resolved_output_dir(cur_target_dir, cwd_at_call)
cur_stem == filename_sans_ext(cur_filename)

-----------------------------------------------------------------------------
(* The state machine. *)

Init ==
    /\ op \in {"pdf_to_images", "preprocess_img"}
    /\ pc = "start"
    /\ cwd \in Cwds
    /\ cwd_at_call = cwd
    /\ saved_cwd = <<>>
    /\ pending = NoExc
    /\ calls = <<>>
    /\ log = <<>>
    /\ result = NoResult
    /\ rotate = <<>>
    /\ image = <<>>
    /\ IF op = "pdf_to_images"
       THEN /\ pdf_filepath \in PdfPaths
            /\ output_dir \in OutputDirs
            /\ dir_state \in DirStates
            /\ entries \in PreDirs
            /\ image_filepath = <<>>
            /\ tess_params = NoneArg
       ELSE /\ pdf_filepath = <<>>
            /\ output_dir = NoneArg
            /\ dir_state = "ok"
            /\ entries = {}
            /\ cwd = W_home
            /\ image_filepath = I_image
            /\ tess_params \in TessParams

\* the except clauses of pdfimages (lines 71-86) taking exception e
Handle(e) ==
    /\ log' = log \o except_log(e, cur_pdf)
    /\ result' = except_raise(e, cur_pdf)
    /\ pc' = "done"

\* pdf_to_images lines 23-29 and pdfimages lines 49-58: resolve the paths and
\* enter working_dir(output_dir)
pdfimages_enter ==
    /\ op = "pdf_to_images" /\ pc = "start"
    /\ saved_cwd' = cwd
    /\ pending' = path_error(cur_output_dir, dir_state)
    /\ IF pending' = NoExc
       THEN /\ cwd' = working_dir_enter(cur_output_dir, cwd)
            /\ pc' = "in_working_dir"
            /\ UNCHANGED <<log, result>>
       ELSE /\ cwd' = working_dir_exit(cwd, cwd)
            /\ Handle(pending')
    /\ UNCHANGED <<op, pdf_filepath, output_dir, dir_state, entries,
                   cwd_at_call, image_filepath, tess_params, image, rotate,
                   calls>>

\* pdfimages lines 59-63: subprocess.run(["pdfimages", "-png", ...],
\* capture_output=True, check=True) in the working directory
pdfimages_run ==
    /\ op = "pdf_to_images" /\ pc = "in_working_dir"
    /\ \E outcome \in {"exit0", "nonzero", "missing", "noexec"} :
       \E n \in 0..MaxPages, rc \in ReturnCodes, err \in StderrSamples :
          LET cmd == pdfimages_cmd(cur_pdf, cur_stem)
          IN  /\ outcome = "exit0" => rc = 1 /\ err = <<>>
              /\ outcome # "exit0" => n = 0
              /\ outcome \in {"missing", "noexec"} => rc = 1 /\ err = <<>>
              /\ entries' = entries \cup {page_name(cur_stem, k) : k \in 0..(n - 1)}
              /\ pending' =
                    CASE outcome = "exit0" -> NoExc
                      [] outcome = "nonzero" -> CalledProcessError(cmd, rc, err)
                      [] outcome = "missing" ->
                            OSErrorOf("FileNotFoundError", S_pdfimages)
                      [] OTHER -> OSErrorOf("PermissionError", S_pdfimages)
              /\ calls' = Append(calls, CallRecord(cmd, cwd, outcome, err))
    /\ pc' = "leave_working_dir"
    /\ UNCHANGED <<op, cwd, pdf_filepath, output_dir, dir_state, saved_cwd,
                   cwd_at_call, image_filepath, tess_params, image, rotate,
                   log, result>>


\* lines 58-69 with the listing moved inside the with block: on success the
\* directory is listed before the working directory is restored
pdfimages_leave_list_inside ==
    /\ op = "pdf_to_images" /\ pc = "leave_working_dir"
    /\ IF pending = NoExc
       THEN pc' = "collect" /\ cwd' = cwd /\ UNCHANGED <<log, result>>
       ELSE cwd' = working_dir_exit(saved_cwd, cwd) /\ Handle(pending)
    /\ UNCHANGED <<op, pdf_filepath, output_dir, dir_state, entries, saved_cwd,
                   cwd_at_call, pending, image_filepath, tess_params, image,
                   rotate, calls>>

\* pdfimages line 58: the with block is left, and an exception raised in it
\* reaches the except clauses
pdfimages_leave ==
    /\ op = "pdf_to_images" /\ pc = "leave_working_dir"
    /\ cwd' = working_dir_exit(saved_cwd, cwd)
    /\ IF pending = NoExc
       THEN pc' = "collect" /\ UNCHANGED <<log, result>>
       ELSE Handle(pending)
    /\ UNCHANGED <<op, pdf_filepath, output_dir, dir_state, entries, saved_cwd,
                   cwd_at_call, pending, image_filepath, tess_params, image,
                   rotate, calls>>

\* pdfimages lines 65-69 and pdf_to_images line 33: list the directory, keep
\* the matching names, join them to target_dir and sort
pdfimages_collect ==
    /\ op = "pdf_to_images" /\ pc = "collect"
    /\ \E listed \in {"ok", "missing", "noperm"} :
          IF listed = "ok"
          THEN \E listing \in Listings(entries) :
                  LET image_filenames ==
                          find_matching_files_in_dir(cur_stem, listing)
                  IN  /\ log' = Append(log, LogRecord("debug",
                              S_converted \o cur_pdf \o S_into_files
                                  \o Join(image_filenames, S_newline)))
                      /\ result' = Return(joined_sorted(cur_target_dir,
                                                        image_filenames))
                      /\ pc' = "done"
                      /\ pending' = NoExc
          ELSE /\ pending' = path_error(cur_output_dir, listed)
               /\ Handle(pending')
    /\ UNCHANGED <<op, cwd, pdf_filepath, output_dir, dir_state, entries,
                   saved_cwd, cwd_at_call, image_filepath, tess_params, image,
                   rotate, calls>>

\* preprocess_img lines 107-109 and get_rotate: run tesseract, parse its
\* report
preprocess_get_rotate ==
    /\ op = "preprocess_img" /\ pc = "start"
    /\ \E outcome \in {"exit0", "nonzero", "missing"} :
       \E out \in TessOutputs, rc \in ReturnCodes :
          LET cmd == tess_command(image_filepath,
                                  effective_tess_params(tess_params))
              got == get_rotate(out)
          IN  /\ outcome # "exit0" => out = <<>> /\ rc = 1
              /\ outcome = "exit0" => rc = 1
              /\ calls' = Append(calls, CallRecord(cmd, cwd, outcome, out))
              /\ CASE outcome = "nonzero" ->
                        /\ result' = Raise(CalledProcessError(cmd, rc, <<>>))
                        /\ pc' = "done" /\ rotate' = rotate
                   [] outcome = "missing" ->
                        /\ result' = Raise(OSErrorOf("FileNotFoundError",
                                                     S_tesseract))
                        /\ pc' = "done" /\ rotate' = rotate
                   [] outcome = "exit0" /\ DecodeFails(out) ->
                        /\ result' = Raise([type |-> "UnicodeDecodeError"])
                        /\ pc' = "done" /\ rotate' = rotate
                   [] outcome = "exit0" /\ ~DecodeFails(out)
                        /\ got.kind = "raise" ->
                        /\ result' = got
                        /\ pc' = "done" /\ rotate' = rotate
                   [] OTHER ->
                        /\ rotate' = got.value
                        /\ pc' = "mogrify" /\ result' = result
    /\ UNCHANGED <<op, cwd, pdf_filepath, output_dir, dir_state, entries,
                   saved_cwd, cwd_at_call, pending, image_filepath,
                   tess_params, image, log>>

\* preprocess_img lines 110-111 and mogrify: log, then run
\* subprocess.run(["mogrify", "-rotate", rotate, filepath]) unchecked
preprocess_mogrify ==
    /\ op = "preprocess_img" /\ pc = "mogrify"
    /\ log' = Append(log, LogRecord("debug",
                S_rotating \o image_filepath \o S_by \o rotate \o <<".">>))
    /\ \E outcome \in {"exit0", "nonzero", "missing"} :
          /\ calls' = Append(calls, CallRecord(
                          mogrify_cmd(image_filepath, rotate), cwd, outcome, <<>>))
          /\ image' = IF outcome = "exit0" THEN Append(image, rotate) ELSE image
          /\ result' = IF outcome = "missing"
                       THEN Raise(OSErrorOf("FileNotFoundError", S_mogrify))
                       ELSE Return(<<>>)
    /\ pc' = "done"
    /\ UNCHANGED <<op, cwd, pdf_filepath, output_dir, dir_state, entries,
                   saved_cwd, cwd_at_call, pending, image_filepath,
                   tess_params, rotate>>

Next ==
    \/ pdfimages_enter
    \/ pdfimages_run
    \/ pdfimages_leave
    \/ pdfimages_collect
    \/ preprocess_get_rotate
    \/ preprocess_mogrify

Spec == Init /\ [][Next]_vars

-----------------------------------------------------------------------------
(* Properties. *)

PdfDone == op = "pdf_to_images" /\ pc = "done"
PdfReturned == PdfDone /\ result.kind = "return"
PdfRaised == PdfDone /\ result.kind = "raise"
ImgDone == op = "preprocess_img" /\ pc = "done"

\* the outcome of the rasterizer invocation, "none" when it was not reached
RasterOutcome == IF calls = <<>> THEN "none" ELSE calls[1].outcome

Range(f) == {f[i] : i \in DOMAIN f}

\* the names of the target directory that match the pattern
Matching == {e \in entries : re_match(cur_stem, e)}

\* C1: every path pdf_to_images returns is absolute, whatever the form of
\* pdf_filepath and output_dir.
C1_ReturnedPathsAbsolute ==
    PdfReturned => \A i \in DOMAIN result.value : isabs(result.value[i])

\* C2: after a successful rasterizer run pdf_to_images returns one path per
\* matching directory entry, none omitted, none added, none twice, in
\* strictly ascending order of the full path string (so the list is a
\* function of the directory alone, and empty when nothing matches); after
\* exit status 0 the only failure is the directory listing itself raising.
C2_ExactlyMatchesSorted ==
    /\ PdfReturned =>
          LET v == result.value
          IN  /\ RasterOutcome = "exit0"
              /\ Range(v) = {path_join(cur_target_dir, e) : e \in Matching}
              /\ Len(v) = Cardinality(Matching)
              /\ \A i, j \in DOMAIN v : i < j => StrLess(v[i], v[j])
    /\ (PdfRaised /\ RasterOutcome = "exit0") =>
          /\ pending # NoExc
          /\ pending.filename = cur_output_dir

C2_Witness ==
    /\ PdfReturned
    /\ Len(result.value) >= 3
    /\ entries # Matching
    /\ "path" \in DOMAIN output_dir

\* C3 as stated: a non-zero exit of pdfimages raises a RuntimeError caused
\* by the CalledProcessError whose message contains the decoded stderr.
C3_MessageContainsStderr ==
    (PdfDone /\ RasterOutcome = "nonzero") =>
        /\ result.kind = "raise"
        /\ result.exc.type = "RuntimeError"
        /\ result.exc.cause.type = "CalledProcessError"
        /\ Contains(result.exc.msg, decode_replace(calls[1].out))

\* C3 amended: a non-zero exit of pdfimages raises a RuntimeError caused by
\* the original CalledProcessError; its message is "Error running pdfimages
\* on <pdf>: Command '<argv>' returned non-zero exit status <n>.", built from
\* the path, the command line and the status only; the captured stderr, when
\* not empty, is decoded with invalid bytes replaced and written to the error
\* log after the message; no list is returned.
C3_StderrLoggedNotInMessage ==
    (PdfDone /\ RasterOutcome = "nonzero") =>
        LET c == calls[1]
            e == result.exc
        IN  /\ result.kind = "raise"
            /\ e.type = "RuntimeError"
            /\ e.cause.type = "CalledProcessError"
            /\ e.cause.cmd = c.argv
            /\ e.cause.stderr = c.out
            /\ e.msg = S_error_running \o cur_pdf \o S_colon_space \o S_command
                         \o repr(repr_list(c.argv)) \o S_nonzero
                         \o int_str(e.cause.returncode) \o <<".">>
            /\ log = <<LogRecord("error", e.msg)>>
                     \o (IF c.out = <<>> THEN <<>>
                         ELSE <<LogRecord("error",
                                  S_stderr_prefix \o decode_replace(c.out))>>)

C3_Witness ==
    /\ PdfDone
    /\ RasterOutcome = "nonzero"
    /\ calls[1].out = E_invalid
    /\ Len(log) = 2
    /\ Contains(log[2].msg, <<"\\ufffd">>)

\* C4: when launching pdfimages fails because the binary is missing, the
\* caller gets a RuntimeError with the "pdfimages command not found. Make
\* sure Poppler is installed" message caused by the original
\* FileNotFoundError; no FileNotFoundError reaches the caller unwrapped.
C4_MissingBinaryWrapped ==
    /\ (PdfDone /\ RasterOutcome = "missing") =>
          /\ result.kind = "raise"
          /\ result.exc.type = "RuntimeError"
          /\ StartsAt(result.exc.msg, S_not_found, 1)
          /\ result.exc.cause = OSErrorOf("FileNotFoundError", S_pdfimages)
    /\ PdfRaised => result.exc.type # "FileNotFoundError"

C4_Witness ==
    /\ PdfRaised
    /\ RasterOutcome = "missing"
    /\ cwd = cwd_at_call
    /\ calls[1].cwd # cwd_at_call

\* some invocation of the named tool ended with one of the outcomes
ToolEnded(name, outcomes) ==
    \E i \in DOMAIN calls : calls[i].argv[1] = name /\ calls[i].outcome \in outcomes

\* the call ended in a logged RuntimeError that carries a cause
WrappedAndLogged ==
    /\ result.kind = "raise"
    /\ result.exc.type = "RuntimeError"
    /\ result.exc.cause # NoExc
    /\ \E i \in DOMAIN log : log[i] = LogRecord("error", result.exc.msg)

\* C5 as stated: for pdfimages, tesseract and mogrify alike, a non-zero exit
\* or a failed launch reaches the caller as a logged RuntimeError carrying
\* the cause; only a non-zero exit of mogrify is ignored.
C5_AllToolsWrapped ==
    /\ (pc = "done" /\ ToolEnded(S_pdfimages, {"nonzero", "missing", "noexec"}))
          => WrappedAndLogged
    /\ (pc = "done" /\ ToolEnded(S_tesseract, {"nonzero", "missing"}))
          => WrappedAndLogged
    /\ (pc = "done" /\ ToolEnded(S_mogrify, {"missing"})) => WrappedAndLogged
    /\ (pc = "done" /\ ToolEnded(S_mogrify, {"nonzero"})) => result.kind = "return"

\* C5 amended: only pdfimages failures (non-zero exit, missing binary, any
\* other exception in the try block) are caught, logged and raised as a
\* RuntimeError carrying the original cause.  A non-zero exit or missing
\* binary of tesseract reaches the caller as the original CalledProcessError
\* or FileNotFoundError, unlogged, and mogrify is not run; a missing mogrify
\* binary reaches the caller as the original FileNotFoundError with no error
\* logged; a non-zero exit of mogrify is ignored.
C5_OnlyPdfimagesWrapped ==
    /\ (pc = "done" /\ ToolEnded(S_pdfimages, {"nonzero", "missing", "noexec"}))
          => /\ WrappedAndLogged
             /\ result.exc.cause = pending
    /\ PdfRaised => WrappedAndLogged /\ result.exc.cause = pending
    /\ (pc = "done" /\ ToolEnded(S_tesseract, {"nonzero"}))
          => /\ result.kind = "raise"
             /\ result.exc.type = "CalledProcessError"
             /\ result.exc.cmd = calls[1].argv
             /\ log = <<>> /\ Len(calls) = 1
    /\ (pc = "done" /\ ToolEnded(S_tesseract, {"missing"}))
          => /\ result = Raise(OSErrorOf("FileNotFoundError", S_tesseract))
             /\ log = <<>> /\ Len(calls) = 1
    /\ (pc = "done" /\ ToolEnded(S_mogrify, {"missing"}))
          => /\ result = Raise(OSErrorOf("FileNotFoundError", S_mogrify))
             /\ \A i \in DOMAIN log : log[i].level # "error"
    /\ (pc = "done" /\ ToolEnded(S_mogrify, {"nonzero"}))
          => result = Return(<<>>) /\ image = <<>>

C5_Witness ==
    /\ ImgDone
    /\ ToolEnded(S_tesseract, {"nonzero"})
    /\ result.kind = "raise"
    /\ result.exc.type = "CalledProcessError"

\* the decoded tesseract report of a run that produced one
Report == calls[1].out
HasReport ==
    /\ op = "preprocess_img" /\ calls # <<>>
    /\ calls[1].outcome = "exit0" /\ ~DecodeFails(Report)

\* the first line of the report that contains "Rotate: " (when there is one)
ReportLines == Split(Report, S_newline)
HasRotateLine == \E i \in DOMAIN ReportLines : Contains(ReportLines[i], S_Rotate)
FirstRotateLine ==
    ReportLines[CHOOSE i \in DOMAIN ReportLines :
                    /\ Contains(ReportLines[i], S_Rotate)
                    /\ \A j \in 1..(i - 1) : ~Contains(ReportLines[j], S_Rotate)]

\* what follows the first ": " of a line
AfterFirstSep(line) == Drop(line, Find(line, S_colon_space) + Len(S_colon_space))

\* C6 as stated: get_rotate returns the whole of the first "Rotate: " line
\* that follows the line's first ": ".
C6_WholeRestOfLine ==
    (HasReport /\ HasRotateLine) => rotate = AfterFirstSep(FirstRotateLine)

\* C6 amended: get_rotate returns, for the first line containing "Rotate: ",
\* the text between the line's first ": " and its next ": " (or the end of
\* the line when there is no other): the whole rest of the line exactly when
\* the line holds a single ": ".
C6_UpToNextSeparator ==
    (HasReport /\ HasRotateLine) =>
        LET rest == AfterFirstSep(FirstRotateLine)
            nxt == Find(rest, S_colon_space)
        IN  /\ pc \in {"mogrify", "done"}
            /\ rotate = IF nxt = 0 THEN rest ELSE SubSeq(rest, 1, nxt - 1)
            /\ (pc = "done" /\ result.kind = "return") =>
                  calls[2].argv[3] = rotate

C6_Witness ==
    /\ HasReport /\ HasRotateLine
    /\ pc = "mogrify"
    /\ rotate = T_angle
    /\ AfterFirstSep(FirstRotateLine) # T_angle
    /\ Len(ReportLines) > 1

\* C7: preprocess_img runs tesseract first and mogrify at most once, after
\* it, with exactly the string get_rotate returned; when the report has no
\* "Rotate: " line the call ends in StopIteration, mogrify is never run and
\* the image is untouched.
C7_DetectThenRotateOnce ==
    op = "preprocess_img" =>
        /\ Len(calls) <= 2
        /\ calls # <<>> => calls[1].argv[1] = S_tesseract
        /\ Len(calls) = 2 =>
              /\ HasReport /\ HasRotateLine
              /\ calls[2].argv = <<S_mogrify, S_rotate_flag, rotate, image_filepath>>
        /\ image # <<>> => (Len(calls) = 2 /\ image = <<rotate>>)
        /\ (HasReport /\ ~HasRotateLine) =>
              /\ pc = "done"
              /\ result = Raise([type |-> "StopIteration"])
              /\ Len(calls) = 1
              /\ image = <<>>

C7_Witness ==
    /\ ImgDone
    /\ HasReport /\ ~HasRotateLine
    /\ Contains(Report, T_Rotate)
    /\ result = Raise([type |-> "StopIteration"])

\* C8: the working directory is the target directory only while pdfimages
\* runs: before the call, when the directory is listed, and after the call
\* on every exit path it is the directory the caller was in.
C8_WorkingDirRestored ==
    op = "pdf_to_images" =>
        /\ pc \in {"start", "collect", "done"} => cwd = cwd_at_call
        /\ \A i \in DOMAIN calls : calls[i].cwd = cur_output_dir
        /\ pc \in {"in_working_dir", "leave_working_dir"} =>
              (cwd = cur_output_dir /\ saved_cwd = cwd_at_call)

C8_Witness ==
    /\ PdfRaised
    /\ RasterOutcome = "noexec"
    /\ calls[1].cwd # cwd_at_call
    /\ cwd = cwd_at_call

\* the form C9 gives: the literal stem, "-", three digits, anything, and
\* ".png" as the end of the name
WholeNameForm(stem, name) ==
    LET n == Len(stem) + 1
    IN  /\ StartsAt(name, stem \o S_dash, 1)
        /\ Len(name) >= n + IndexDigits + Len(S_dot_png)
        /\ \A k \in 1..IndexDigits : name[n + k] \in Digits
        /\ StartsAt(name, S_dot_png, Len(name) - Len(S_dot_png) + 1)

\* C9: a directory entry is selected if and only if its whole name is the
\* literal stem, "-", three digits, an arbitrary suffix and a final ".png".
C9_SelectsWholeNameForm ==
    PdfReturned =>
        \A e \in entries :
            (path_join(cur_target_dir, e) \in Range(result.value))
                <=> WholeNameForm(cur_stem, e)

\* C10: a pdfimages failure that is neither a non-zero exit nor a missing
\* binary is raised with the "Unexpected error processing PDF <path>"
\* message, and the "pdfimages command not found" message is raised only
\* when the binary is missing.
C10_ReportedByCause ==
    PdfRaised =>
        /\ RasterOutcome \notin {"nonzero", "missing"} =>
              StartsAt(result.exc.msg, S_unexpected \o cur_pdf, 1)
        /\ StartsAt(result.exc.msg, S_not_found, 1) => RasterOutcome = "missing"

====
